---- MODULE Spec2Model ----
(***************************************************************************)
(* Model of the TEASPN server SDK: the document state kept by              *)
(* TeaspnHandler (text, line offsets, uri), the request handlers of        *)
(* TeaspnServer, and the sample capability provider.                       *)
(*                                                                         *)
(* Text is a sequence of one-character strings.  Offsets, line numbers and *)
(* characters are 0-based as in the Python source; TLA+ sequences are      *)
(* 1-based, so element i of a Python list is element i+1 of the sequence.  *)
(***************************************************************************)
EXTENDS Integers, Sequences, FiniteSets, TLC

VARIABLES
    text,           \* TeaspnHandler._text
    line_offsets,   \* TeaspnHandler._line_offsets
    uri,            \* TeaspnHandler._uri
    diag_to_replacements,   \* TeaspnHandlerSample._diag_to_replacements
    verb_order,     \* iteration order of each set literal of VALID_COMBINATIONS
    shutdown,       \* TeaspnServer._shutdown
    inbox,          \* the messages read from the client and not yet handled
    handshake,      \* history: which of initialize / shutdown have been handled
    last,           \* history: the call handled last and its outcome
    ref,            \* history: reference string spliced without the line index
    refValid,       \* history: every edit since the last open was a valid edit
    workers,        \* the threads of the endpoint's pool: where each one is in its handler
    committed,      \* history: the (text, line offsets) each completed mutation left
    received,       \* history: the open and change notifications in the order received
    pending,        \* the requests sent to the client that it has not answered
    failed,         \* history: a call handled before the last message was read has raised
    opened,         \* history: the uris of the documents opened so far
    calls           \* history: the handler methods the code-action request handled last called

vars == <<text, line_offsets, uri, diag_to_replacements, verb_order, shutdown, inbox,
          handshake, last, ref, refValid, workers, committed, received, pending, failed,
          opened, calls>>

\* the variables of the worker pool and its history
poolVars == <<workers, committed, received>>

\* the variables that only the handlers of requests to the client and the
\* history of the session change
sessionVars == <<pending, failed, opened, calls>>

-----------------------------------------------------------------------------
(* Bounds of the model *)

MaxLen == 3
MaxLine == 1
MaxChar == 2
PoolSize == 2
MaxMessages == 2
MAX_WORKERS == 64
MaxPending == 1
MaxBatchLen == 5

NL == "\n"
Alphabet == {"a", NL}
\* An Optional value: None is the empty tuple, a value v that is present is <<v>>
None == <<>>
Some(v) == <<v>>

\* no exception was raised
NoException == ""
URIs == {"file:///a"}

Texts == UNION {[1..n -> Alphabet] : n \in 0..MaxLen}
NewTexts == {<<>>, <<"a">>, <<NL>>}

-----------------------------------------------------------------------------
(* Python list and string primitives *)

Min(S) == CHOOSE x \in S : \A y \in S : x <= y
Max(S) == CHOOSE x \in S : \A y \in S : x >= y

\* s[a:b] for a, b >= 0: both ends are clamped to len(s)
Slice(s, a, b) ==
    SubSeq(s, (IF a < Len(s) THEN a ELSE Len(s)) + 1, IF b < Len(s) THEN b ELSE Len(s))

\* s[a:] for a >= 0
SliceFrom(s, a) == Slice(s, a, Len(s))

\* [m.start() for m in re.finditer('\n', s)]
finditer_newline(s) ==
    LET F[k \in 0..Len(s)] ==
            IF k = 0 THEN <<>>
            ELSE IF s[k] = NL THEN Append(F[k - 1], k - 1) ELSE F[k - 1]
    IN  F[Len(s)]

-----------------------------------------------------------------------------
(* protocol.py *)

Position(l, c) == [line |-> l, character |-> c]
Range(s, e) == [start |-> s, end |-> e]

Positions == {Position(l, c) : l \in 0..MaxLine, c \in 0..MaxChar}
Ranges == {Range(s, e) : s \in Positions, e \in Positions}

-----------------------------------------------------------------------------
(* teaspn_handler.py: TeaspnHandler *)

\* _position_to_offset; the caller has checked that the list index exists
position_to_offset(offs, position) == offs[position.line + 1] + position.character

\* the list index of _position_to_offset raises IndexError
position_raises(offs, position) == position.line >= Len(offs)

\* _offset_to_position
offset_to_position(offs, offset) ==
    LET hits == {i \in 0..(Len(offs) - 1) : offs[i + 1] > offset}
        line == IF hits = {} THEN 0 ELSE Min(hits) - 1
    IN  Position(line, offset - line)

\* a variant of _recompute_line_offsets that forgets the + 1 after m.start()
recompute_line_offsets_at_break(t) == <<0>> \o finditer_newline(t)

\* _recompute_line_offsets
recompute_line_offsets(t) ==
    LET starts == finditer_newline(t)
    IN  <<0>> \o [i \in 1..Len(starts) |-> starts[i] + 1]

\* a variant of the splice that resumes the old text at start_offset
splice_from_start(t, start_offset, end_offset, newText) ==
    Slice(t, 0, start_offset) \o newText \o SliceFrom(t, start_offset)

\* the new self._text of update_document
splice(t, start_offset, end_offset, newText) ==
    Slice(t, 0, start_offset) \o newText \o SliceFrom(t, end_offset)

\* update_document: the document after the call, or the exception it raised
update_document(t, offs, range, newText) ==
    IF position_raises(offs, range.start) \/ position_raises(offs, range.end)
    THEN [raised |-> "IndexError", text |-> t, line_offsets |-> offs]
    ELSE LET start_offset == position_to_offset(offs, range.start)
             end_offset == position_to_offset(offs, range.end)
             t2 == splice(t, start_offset, end_offset, newText)
         IN  [raised |-> NoException, text |-> t2, line_offsets |-> recompute_line_offsets(t2)]

\* _get_line; the caller has checked that both list indexes exist
get_line(t, offs, line) ==
    LET line_offsets_with_sentinel == offs \o <<Len(t)>>
    IN  Slice(t, line_offsets_with_sentinel[line + 1], line_offsets_with_sentinel[line + 2])

\* the list indexes of _get_line raise IndexError
get_line_raises(offs, line) == line + 1 >= Len(offs) + 1

-----------------------------------------------------------------------------
(* Python str and re primitives used by the handlers *)

Lowercase == <<"a","b","c","d","e","f","g","h","i","j","k","l","m",
               "n","o","p","q","r","s","t","u","v","w","x","y","z">>
Uppercase == <<"A","B","C","D","E","F","G","H","I","J","K","L","M",
               "N","O","P","Q","R","S","T","U","V","W","X","Y","Z">>
Digits == {"0","1","2","3","4","5","6","7","8","9"}

Letters(alpha) == {alpha[i] : i \in 1..Len(alpha)}

\* the characters the pattern \w matches
WordChars == Letters(Lowercase) \cup Letters(Uppercase) \cup Digits \cup {"_"}

IndexIn(alpha, c) == CHOOSE i \in 1..Len(alpha) : alpha[i] = c

\* str.lower()
lower(s) ==
    [i \in 1..Len(s) |->
        IF s[i] \in Letters(Uppercase) THEN Lowercase[IndexIn(Uppercase, s[i])] ELSE s[i]]

\* str.upper()
upper(s) ==
    [i \in 1..Len(s) |->
        IF s[i] \in Letters(Lowercase) THEN Uppercase[IndexIn(Lowercase, s[i])] ELSE s[i]]

\* list(re.finditer(r'\w+', s)): the maximal runs of word characters, left to right
finditer_word(s) ==
    LET F[k \in 0..Len(s)] ==
            IF k = 0 THEN <<>>
            ELSE IF s[k] \notin WordChars THEN F[k - 1]
            ELSE IF k > 1 /\ s[k - 1] \in WordChars
            THEN LET prev == F[k - 1]
                 IN  [prev EXCEPT ![Len(prev)].end = k,
                                  ![Len(prev)].group = Append(@, s[k])]
            ELSE Append(F[k - 1], [start |-> k - 1, end |-> k, group |-> <<s[k]>>])
    IN  F[Len(s)]

\* str.splitlines() for text whose only line boundary character is \n
splitlines(s) ==
    LET nl == finditer_newline(s)
        n == Len(nl)
        pieces == [i \in 1..(n + 1) |->
                     Slice(s, IF i = 1 THEN 0 ELSE nl[i - 1] + 1,
                              IF i = n + 1 THEN Len(s) ELSE nl[i])]
    IN  IF pieces[n + 1] = <<>> THEN SubSeq(pieces, 1, n) ELSE pieces

\* the concatenation of a sequence of sequences
RECURSIVE Flatten(_)
Flatten(ss) == IF ss = <<>> THEN <<>> ELSE Head(ss) \o Flatten(Tail(ss))

-----------------------------------------------------------------------------
(* protocol.py: records and their wire form *)

DiagnosticSeverity_Error == 1

\* Diagnostic(range=, message=, severity=) with the defaults of the other fields
Diagnostic(rng, message, severity) ==
    [range |-> rng, message |-> message, severity |-> Some(severity),
     code |-> None, source |-> None]

\* Position.from_dict, Range.from_dict; the caller has checked that the keys exist
Position_from_dict(data) == Position(data["line"], data["character"])
Range_from_dict(data) ==
    Range(Position_from_dict(data["start"]), Position_from_dict(data["end"]))

\* a subscript of Range.from_dict raises KeyError
Range_from_dict_raises(data) ==
    \/ {"start", "end"} \ DOMAIN data # {}
    \/ \E k \in {"start", "end"} : {"line", "character"} \ DOMAIN data[k] # {}

Position_to_dict(p) == [line |-> p.line, character |-> p.character]
Range_to_dict(r) == [start |-> Position_to_dict(r.start), end |-> Position_to_dict(r.end)]

\* Diagnostic.to_dict: a field that is None is left out
Diagnostic_to_dict(d) ==
    LET opt(k) == IF d[k] # None THEN k :> d[k][1] ELSE <<>>
    IN  [range |-> Range_to_dict(d.range), message |-> d.message]
            @@ opt("severity") @@ opt("code") @@ opt("source")

\* dict.get(key): None when the key is absent
get(data, key) == IF key \in DOMAIN data THEN Some(data[key]) ELSE None

\* a variant of Diagnostic.from_dict that does not read the severity
Diagnostic_from_dict_without_severity(data) ==
    [range |-> Range_from_dict(data["range"]), message |-> data["message"],
     severity |-> None, code |-> get(data, "code"), source |-> get(data, "source")]

\* Diagnostic.from_dict; the caller has checked that the keys exist
Diagnostic_from_dict(data) ==
    [range |-> Range_from_dict(data["range"]), message |-> data["message"],
     severity |-> get(data, "severity"), code |-> get(data, "code"),
     source |-> get(data, "source")]

\* a subscript of Diagnostic.from_dict raises KeyError
Diagnostic_from_dict_raises(data) ==
    \/ {"range", "message"} \ DOMAIN data # {}
    \/ Range_from_dict_raises(data["range"])

\* TextEdit and TextEdit.to_dict
TextEdit(rng, newText) == [range |-> rng, newText |-> newText]
TextEdit_to_dict(e) == [range |-> Range_to_dict(e.range), newText |-> e.newText]

\* WorkspaceEdit({uri: edits}) and WorkspaceEdit.to_dict; the key is self._uri,
\* which is None while no document has been opened
WorkspaceEdit(u, edits) == [changes |-> (u :> edits)]
WorkspaceEdit_to_dict(w) ==
    [changes |-> [u \in DOMAIN w.changes |->
                    [k \in 1..Len(w.changes[u]) |-> TextEdit_to_dict(w.changes[u][k])]]]

\* Command(title=, command=, arguments=) and Command.to_dict
Command(title, command, arguments) ==
    [title |-> title, command |-> command, arguments |-> arguments]
Command_to_dict(c) ==
    [title |-> c.title, command |-> c.command,
     arguments |-> [k \in 1..Len(c.arguments) |-> WorkspaceEdit_to_dict(c.arguments[k])]]

\* CodeAction(title=, kind=, command=) and CodeAction.to_dict (edit is None)
CodeAction(title, kind, command) == [title |-> title, kind |-> kind, command |-> command]
CodeAction_to_dict(a) ==
    [title |-> a.title, kind |-> a.kind, command |-> Command_to_dict(a.command)]

\* Location.to_dict of Location(uri=, range=)
Location_to_dict(u, rng) == [uri |-> u, range |-> Range_to_dict(rng)]

\* SyntaxHighlight.to_dict of SyntaxHighlight(range=, type=, hoverMessage=)
SyntaxHighlight_to_dict(rng, type, hoverMessage) ==
    [range |-> Range_to_dict(rng), type |-> type, hoverMessage |-> hoverMessage]

\* CompletionList.to_dict of CompletionList(isIncomplete=, items=) whose items
\* are CompletionItem(label=)
CompletionList_to_dict(isIncomplete, labels) ==
    [isIncomplete |-> isIncomplete,
     items |-> [k \in 1..Len(labels) |-> [label |-> labels[k]]]]

-----------------------------------------------------------------------------
(* handler_impl_sample.py: TeaspnHandlerSample *)

PRONOUNS == {<<"i">>, <<"y","o","u">>, <<"w","e">>, <<"s","h","e">>, <<"h","e">>,
             <<"t","h","e","y">>, <<"i","t">>}
BE_VERBS == {<<"a","m">>, <<"a","r","e">>, <<"i","s">>, <<"w","e","r","e">>, <<"w","a","s">>}

\* the three set literals of VALID_COMBINATIONS, their elements in the order written
SetLiterals == {"am_was", "are_were", "is_was"}
elements(literal) ==
    CASE literal = "am_was" -> <<<<"a","m">>, <<"w","a","s">>>>
      [] literal = "are_were" -> <<<<"a","r","e">>, <<"w","e","r","e">>>>
      [] literal = "is_was" -> <<<<"i","s">>, <<"w","a","s">>>>

\* VALID_COMBINATIONS[pronoun]: the set literal of a pronoun
VALID_COMBINATIONS(pronoun) ==
    CASE pronoun = <<"i">> -> "am_was"
      [] pronoun \in {<<"y","o","u">>, <<"w","e">>, <<"t","h","e","y">>} -> "are_were"
      [] OTHER -> "is_was"

\* A Python set of str iterates in an order fixed by the process's string
\* hashing: one order per set literal, unknown until the set is first iterated.
IterationOrders == {"written", "swapped"}
iterate(literal, ord) ==
    IF ord[literal] = Some("swapped")
    THEN <<elements(literal)[2], elements(literal)[1]>>
    ELSE elements(literal)

wrong_agreement(w1, w2) ==
    /\ lower(w1) \in PRONOUNS /\ lower(w2) \in BE_VERBS
    /\ lower(w2) \notin {elements(VALID_COMBINATIONS(lower(w1)))[i] : i \in 1..2}

\* a variant of the loop body that skips the test of VALID_COMBINATIONS
line_errors_any_verb(line_id, line_text) ==
    LET matches == finditer_word(line_text)
        pair(k) ==
            IF lower(matches[k].group) \in PRONOUNS /\ lower(matches[k + 1].group) \in BE_VERBS
            THEN <<[line_id |-> line_id, m1 |-> matches[k], m2 |-> matches[k + 1]]>>
            ELSE <<>>
    IN  Flatten([k \in 1..(IF Len(matches) = 0 THEN 0 ELSE Len(matches) - 1) |-> pair(k)])

\* get_diagnostics: the pairs of adjacent words (m1, m2) of one line that reach
\* the end of the loop body, in loop order
line_errors(line_id, line_text) ==
    LET matches == finditer_word(line_text)
        pair(k) ==
            IF wrong_agreement(matches[k].group, matches[k + 1].group)
            THEN <<[line_id |-> line_id, m1 |-> matches[k], m2 |-> matches[k + 1]]>>
            ELSE <<>>
    IN  Flatten([k \in 1..(IF Len(matches) = 0 THEN 0 ELSE Len(matches) - 1) |-> pair(k)])

\* get_diagnostics: the same for the whole text
agreement_errors(t) ==
    LET lines == splitlines(t)
    IN  Flatten([l \in 1..Len(lines) |-> line_errors(l - 1, lines[l])])

\* get_diagnostics: the diagnostic and the replacements built for one such pair
diagnosed(e, ord) ==
    LET w1 == e.m1.group
        w2 == e.m2.group
        rng == Range(Position(e.line_id, e.m1.start), Position(e.line_id, e.m2.end))
        verbs == iterate(VALID_COMBINATIONS(lower(w1)), ord)
    IN  [diagnostic |->
            Diagnostic(rng, <<"Wrong agreement: ">> \o w1 \o <<" ">> \o w2,
                       DiagnosticSeverity_Error),
         replacements |-> [v \in 1..Len(verbs) |-> w1 \o <<" ">> \o verbs[v]]]

\* get_diagnostics: the (diagnostic, replacements) pairs in the order produced
found_diagnostics(t, ord) ==
    LET errors == agreement_errors(t)
    IN  [k \in 1..Len(errors) |-> diagnosed(errors[k], ord)]

\* get_diagnostics: the list it returns
get_diagnostics(found) == [k \in 1..Len(found) |-> found[k].diagnostic]

\* get_diagnostics: self._diag_to_replacements after the call
RECURSIVE register(_, _)
register(mapping, found) ==
    IF found = <<>> THEN mapping
    ELSE register((Head(found).diagnostic :> Head(found).replacements) @@ mapping,
                  Tail(found))

\* the set literals get_diagnostics iterates on text t
iterated_literals(t) ==
    LET errors == agreement_errors(t)
    IN  {VALID_COMBINATIONS(lower(errors[k].m1.group)) : k \in 1..Len(errors)}

\* the iteration orders the process can show after get_diagnostics on text t
orders_after(ord, t) ==
    LET first == {lit \in iterated_literals(t) : ord[lit] = None}
    IN  IF first = {} THEN {ord}
        ELSE {[lit \in SetLiterals |-> IF lit \in first THEN Some(o[lit]) ELSE ord[lit]] :
                o \in [first -> IterationOrders]}

\* _get_word_at; the caller has checked that _get_line does not raise
\* a variant that takes the span of a match without the offset behind its end
get_word_at_half_open(t, offs, position) ==
    LET line == get_line(t, offs, position.line)
        matches == finditer_word(line)
        hits == {k \in 1..Len(matches) :
                    matches[k].start <= position.character
                    /\ position.character < matches[k].end}
    IN  IF hits = {} THEN None ELSE Some(matches[Min(hits)].group)

get_word_at(t, offs, position) ==
    LET line == get_line(t, offs, position.line)
        matches == finditer_word(line)
        hits == {k \in 1..Len(matches) :
                    matches[k].start <= position.character
                    /\ position.character <= matches[k].end}
    IN  IF hits = {} THEN None ELSE Some(matches[Min(hits)].group)

\* hover of the sample handler, then Hover.to_dict as m_text_document__hover returns it
hover(t, offs, position) ==
    LET word == get_word_at(t, offs, position)
    IN  IF word = None \/ word[1] = <<>> THEN None
        ELSE Some([contents |-> <<"word: ">> \o word[1]])

\* the ascending list of a finite set of integers
Ascending(S) ==
    [i \in 1..Cardinality(S) |-> CHOOSE x \in S : Cardinality({y \in S : y < x}) = i - 1]

\* the command 'refactor.rewrite' that replaces rng of document u by newText
rewrite(u, rng, title, newText) ==
    Command(title \o newText, "refactor.rewrite",
            <<WorkspaceEdit(u, <<TextEdit(rng, newText)>>)>>)

\* run_quick_fix raises KeyError: a diagnostic is no key of the mapping
run_quick_fix_raises(mapping, diagnostics) ==
    \E k \in 1..Len(diagnostics) : diagnostics[k] \notin DOMAIN mapping

\* run_quick_fix; the caller has checked that it does not raise
run_quick_fix(mapping, u, diagnostics) ==
    LET fixes(diag) ==
            [r \in 1..Len(mapping[diag]) |->
                CodeAction(<<"Quick fix: ">> \o mapping[diag][r], "quickfix",
                           rewrite(u, diag.range, <<"Quick fix: ">>, mapping[diag][r]))]
    IN  Flatten([k \in 1..Len(diagnostics) |-> fixes(diagnostics[k])])

\* _get_text; the caller has checked that _position_to_offset does not raise
get_text(t, offs, rng) ==
    Slice(t, position_to_offset(offs, rng.start), position_to_offset(offs, rng.end))

\* run_code_action; the caller has checked that _get_text does not raise
run_code_action(t, offs, u, rng) ==
    LET target_text == get_text(t, offs, rng)
    IN  IF target_text = <<>> THEN <<>>
        ELSE <<rewrite(u, rng, <<"UPPER: ">>, upper(target_text)),
               rewrite(u, rng, <<"lower: ">>, lower(target_text))>>

\* highlight_syntax: the matches of \b[A-Z]+\b, then those of \b[0-9]+\b, line
\* by line; such a match is a whole run of word characters, all in the class
highlight_syntax(t) ==
    LET lines == splitlines(t)
        marks(line_id, class, type, prefix) ==
            LET matches == finditer_word(lines[line_id + 1])
                mark(m) ==
                    IF \A i \in 1..Len(m.group) : m.group[i] \in class
                    THEN <<SyntaxHighlight_to_dict(
                              Range(Position(line_id, m.start), Position(line_id, m.end)),
                              type, prefix \o m.group)>>
                    ELSE <<>>
            IN  Flatten([k \in 1..Len(matches) |-> mark(matches[k])])
    IN  Flatten([l \in 1..Len(lines) |->
                    marks(l - 1, Letters(Uppercase), "blue", <<"ALL CAPS: ">>)
                    \o marks(l - 1, Digits, "red", <<"numbers: ">>)])

\* search_example, then Example.to_dict: the same list for every query
search_example(query) ==
    LET Example_to_dict(label, description) ==
            [label |-> label, description |-> description]
    IN  <<Example_to_dict("Assam", "a black tea named after the region of its production, Assam, India."),
          Example_to_dict("Chai", "a flavoured tea beverage made by brewing black tea with a mixture of aromatic spices and herbs."),
          Example_to_dict("Darjeeling", "a tea grown in the Darjeeling district, Kalimpong District in West Bengal, India, and widely exported and known."),
          Example_to_dict("Earl Grey", "a tea blend which has been flavoured with the addition of oil of bergamot."),
          Example_to_dict("Jasmine", "tea scented with the aroma of jasmine blossoms."),
          Example_to_dict("Matcha", "finely ground powder of specially grown and processed green tea leaves."),
          Example_to_dict("Oolong", "a traditional semi-oxidized Chinese tea"),
          Example_to_dict("Puerh", "a variety of fermented tea produced in the Yunnan province of China.")>>

\* COMPLETION_WORDS
COMPLETION_WORDS ==
    <<<<"A","s","s","a","m">>, <<"C","h","a","i">>,
      <<"D","a","r","j","e","e","l","i","n","g">>,
      <<"E","a","r","l"," ","G","r","e","y">>, <<"J","a","s","m","i","n","e">>,
      <<"M","a","t","c","h","a">>, <<"O","o","l","o","n","g">>, <<"P","u","e","r","h">>>>

\* the characters str.split() splits at
Whitespace == {" ", NL, "\t", "\r"}

\* context.split() is empty, so that its [-1] raises IndexError
split_last_raises(context) == \A i \in 1..Len(context) : context[i] \in Whitespace

\* context.split()[-1]
split_last(context) ==
    LET e == Max({i \in 1..Len(context) : context[i] \notin Whitespace})
        b == Min({i \in 1..e : \A j \in i..e : context[j] \notin Whitespace})
    IN  SubSeq(context, b, e)

\* str.startswith
startswith(word, prefix) ==
    Len(prefix) <= Len(word) /\ SubSeq(word, 1, Len(prefix)) = prefix

\* get_completion_list: the exception it raises, if any
get_completion_list_raises(t, offs, position) ==
    \/ position_raises(offs, position)
    \/ split_last_raises(Slice(t, 0, position_to_offset(offs, position)))

\* get_completion_list, then CompletionList.to_dict
get_completion_list(t, offs, position) ==
    LET query == split_last(Slice(t, 0, position_to_offset(offs, position)))
        item(word) == IF startswith(word, query) THEN <<word>> ELSE <<>>
    IN  CompletionList_to_dict(TRUE,
            Flatten([k \in 1..Len(COMPLETION_WORDS) |-> item(COMPLETION_WORDS[k])]))

\* search_definition, then Location.to_dict; the caller has checked that
\* _get_word_at returns a word
\* self._text.find(word, offset) raises TypeError when word is None
search_definition_raises(t, offs, position) == get_word_at(t, offs, position) = None

search_definition(t, offs, position, u) ==
    LET word == get_word_at(t, offs, position)[1]
        found == Ascending({o \in 0..(Len(t) - Len(word)) :
                                SubSeq(t, o + 1, o + Len(word)) = word})
    IN  [k \in 1..Len(found) |->
            Location_to_dict(u, Range(offset_to_position(offs, found[k]),
                                      offset_to_position(offs, found[k] + Len(word))))]

-----------------------------------------------------------------------------
(* Reference semantics of an edit, computed on the text alone (no line index) *)

count_newlines(t) == Cardinality({i \in 1..Len(t) : t[i] = NL})

\* offset of the first character of line l, for l <= count_newlines(t)
ref_line_start(t, l) ==
    IF l = 0 THEN 0
    ELSE Min({i \in 1..Len(t) :
                t[i] = NL /\ Cardinality({j \in 1..i : t[j] = NL}) = l})

\* number of characters of line l, its line break not counted
ref_line_length(t, l) ==
    LET from == ref_line_start(t, l)
        breaks == {i \in (from + 1)..Len(t) : t[i] = NL}
    IN  IF breaks = {} THEN Len(t) - from ELSE Min(breaks) - 1 - from

valid_position(t, p) ==
    /\ p.line <= count_newlines(t)
    /\ p.character <= ref_line_length(t, p.line)

before_or_at(p, q) ==
    p.line < q.line \/ (p.line = q.line /\ p.character <= q.character)

valid_range(t, r) ==
    valid_position(t, r.start) /\ valid_position(t, r.end) /\ before_or_at(r.start, r.end)

ref_offset(t, p) == ref_line_start(t, p.line) + p.character

\* text[:start] + newText + text[end:] on the reference string
ref_splice(t, r, newText) ==
    SubSeq(t, 1, ref_offset(t, r.start)) \o newText
        \o SubSeq(t, ref_offset(t, r.end) + 1, Len(t))

-----------------------------------------------------------------------------
(* Requests and notifications the client sends *)

\* one element of contentChanges: with a range, or (a full-text change) without
WireChanges ==
    {[range |-> Range_to_dict(r), text |-> t] : r \in Ranges, t \in NewTexts}
        \cup {[text |-> t] : t \in NewTexts}

\* the first change of a two-change notification
HeadChanges ==
    {[range |-> Range_to_dict(Range(Position(0, 0), Position(0, 0))), text |-> <<"a">>],
     [range |-> Range_to_dict(Range(Position(0, 0), Position(0, 1))), text |-> <<>>],
     [range |-> Range_to_dict(Range(Position(0, 1), Position(0, 1))), text |-> <<NL>>]}

\* the second change of a two-change notification
TailChanges ==
    {[range |-> Range_to_dict(Range(Position(0, 0), Position(0, 1))), text |-> <<>>],
     [range |-> Range_to_dict(Range(Position(1, 0), Position(1, 0))), text |-> <<"a">>],
     [range |-> Range_to_dict(Range(Position(0, 2), Position(0, 2))), text |-> <<NL>>],
     [text |-> <<"a">>]}

Batches == {<<c>> : c \in WireChanges} \cup {<<h, c>> : h \in HeadChanges, c \in TailChanges}

-----------------------------------------------------------------------------
(* teaspn_server.py: TeaspnServer *)

\* a variant of the loop that resolves the range of every change with the line
\* offsets that the document had when the notification arrived
apply_changes_at_start(doc, contentChanges) ==
    LET F[k \in 0..Len(contentChanges)] ==
            IF k = 0 THEN doc
            ELSE LET before == F[k - 1]
                     change == contentChanges[k]
                 IN  IF before.raised # NoException THEN before
                     ELSE IF "range" \notin DOMAIN change
                                \/ Range_from_dict_raises(change["range"])
                     THEN [before EXCEPT !.raised = "KeyError"]
                     ELSE update_document(before.text, doc.line_offsets,
                                          Range_from_dict(change["range"]),
                                          change["text"])
    IN  F[Len(contentChanges)]

\* the for loop of m_text_document__did_change: the document when the loop ends
\* or is left by an exception
RECURSIVE apply_changes(_, _)
apply_changes(doc, contentChanges) ==
    IF contentChanges = <<>> THEN doc
    ELSE LET change == Head(contentChanges)
         IN  IF "range" \notin DOMAIN change \/ Range_from_dict_raises(change["range"])
             THEN [doc EXCEPT !.raised = "KeyError"]
             ELSE LET done == update_document(doc.text, doc.line_offsets,
                                              Range_from_dict(change["range"]),
                                              change["text"])
                  IN  IF done.raised # NoException THEN done
                      ELSE apply_changes(done, Tail(contentChanges))

\* the longest text the loop of m_text_document__did_change passes through
RECURSIVE longest(_, _)
longest(doc, contentChanges) ==
    IF contentChanges = <<>> THEN Len(doc.text)
    ELSE LET after == apply_changes(doc, <<Head(contentChanges)>>)
         IN  IF after.raised # NoException THEN Len(doc.text)
             ELSE Max({Len(doc.text), longest(after, Tail(contentChanges))})

\* the reference string after the same changes, or None when one of them is
\* not a valid edit of it
RECURSIVE ref_apply(_, _)
ref_apply(t, contentChanges) ==
    IF contentChanges = <<>> THEN Some(t)
    ELSE LET change == Head(contentChanges)
         IN  IF "range" \notin DOMAIN change THEN None
             ELSE IF ~valid_range(t, change["range"]) THEN None
             ELSE ref_apply(ref_splice(t, change["range"], change["text"]),
                            Tail(contentChanges))

\* a variant of the notification that carries no diagnostics
publishDiagnostics_without_diagnostics(u, diagnostics) ==
    [method |-> "textDocument/publishDiagnostics",
     params |-> [uri |-> u, diagnostics |-> <<>>]]

\* the notification m_text_document__did_open and m_text_document__did_change send
publishDiagnostics(u, diagnostics) ==
    [method |-> "textDocument/publishDiagnostics",
     params |-> [uri |-> u,
                 diagnostics |-> [k \in 1..Len(diagnostics) |->
                                    Diagnostic_to_dict(diagnostics[k])]]]

\* the result of m_initialize
capabilities ==
    [capabilities |->
        [textDocumentSync |-> [openClose |-> TRUE, change |-> 2],
         completionProvider |-> [resolveProvider |-> TRUE,
                                 triggerCharacters |-> <<" ">> \o Lowercase],
         codeActionProvider |-> TRUE,
         executeCommandProvider |-> [commands |-> <<"refactor.rewrite">>],
         definitionProvider |-> TRUE,
         hoverProvider |-> TRUE]]

\* what the history keeps of a handled call: its method, how it ended ("result"
\* for a request that returned, "done" for a notification that returned, or the
\* exception raised), the result returned if any, and the notifications it sent
call(method, outcome, result, notes) ==
    [method |-> method, outcome |-> outcome, result |-> result, notes |-> notes]

Initialize == "initialize"
Shutdown == "shutdown"
DidOpen == "textDocument/didOpen"
DidChange == "textDocument/didChange"
Hover == "textDocument/hover"
SyntaxHighlight == "textDocument/syntaxHighlight"
Completion == "textDocument/completion"
SearchExample == "workspace/searchExample"
CodeActionRequest == "textDocument/codeAction"
ExecuteCommand == "workspace/executeCommand"
Definition == "textDocument/definition"
ApplyEdit == "workspace/applyEdit"

message(method, params) == [method |-> method, params |-> params]

\* the threads of the pool that the model runs (of MAX_WORKERS)
Workers == 1..PoolSize

\* a thread that runs no handler
idle == [pc |-> "idle"]

Init ==
    /\ text = <<>>
    /\ line_offsets = <<0>>
    /\ uri = None
    /\ diag_to_replacements = <<>>
    /\ verb_order = [lit \in SetLiterals |-> None]
    /\ shutdown = FALSE
    /\ inbox = <<>>
    /\ handshake = [initialized |-> FALSE, shutdown |-> FALSE]
    /\ last = call("", "", None, <<>>)
    /\ ref = <<>>
    /\ refValid = TRUE
    /\ workers = [w \in Workers |-> idle]
    /\ committed = {[text |-> <<>>, line_offsets |-> <<0>>]}
    /\ received = <<>>
    /\ pending = <<>>
    /\ failed = FALSE
    /\ opened = {}
    /\ calls = <<>>

\* start: the reader hands the next message of the client to the endpoint; it
\* reads the following one when the handler of this one has returned
receive ==
    /\ inbox = <<>>
    /\ \/ \E u \in URIs, t \in Texts :
            inbox' = <<message(DidOpen, [textDocument |-> [uri |-> u, text |-> t]])>>
       \/ \E u \in URIs, contentChanges \in Batches :
            /\ longest([raised |-> NoException, text |-> text,
                        line_offsets |-> line_offsets], contentChanges) <= MaxLen
            /\ inbox' = <<message(DidChange, [textDocument |-> [uri |-> u],
                                             contentChanges |-> contentChanges])>>
       \/ \E u \in URIs, position \in Positions :
            inbox' = <<message(Hover, [textDocument |-> [uri |-> u],
                                       position |-> Position_to_dict(position)])>>
       \/ inbox' = <<message(Initialize, <<>>)>>
       \/ inbox' = <<message(Shutdown, <<>>)>>
    /\ UNCHANGED <<text, line_offsets, uri, diag_to_replacements, verb_order, shutdown,
                   handshake, last, ref, refValid, poolVars, sessionVars>>

\* the message a handler is called with
handling(method) == inbox # <<>> /\ Head(inbox).method = method

m_initialize ==
    /\ handling(Initialize)
    /\ inbox' = Tail(inbox)
    /\ handshake' = [handshake EXCEPT !.initialized = TRUE]
    /\ last' = call(Initialize, "result", Some(capabilities), <<>>)
    /\ UNCHANGED <<text, line_offsets, uri, diag_to_replacements, verb_order, shutdown,
                   ref, refValid, poolVars, sessionVars>>

m_shutdown ==
    /\ handling(Shutdown)
    /\ inbox' = Tail(inbox)
    /\ handshake' = [handshake EXCEPT !.shutdown = TRUE]
    /\ last' = call(Shutdown, "result", Some(None), <<>>)
    /\ UNCHANGED <<text, line_offsets, uri, diag_to_replacements, verb_order, shutdown,
                   ref, refValid, poolVars, sessionVars>>

m_text_document__did_open ==
    /\ handling(DidOpen)
    /\ LET textDocument == Head(inbox).params["textDocument"]
           t == textDocument["text"]
       IN  \E ord \in orders_after(verb_order, t) :
               LET found == found_diagnostics(t, ord)
                   diagnostics == get_diagnostics(found)
               IN  /\ uri' = Some(textDocument["uri"])
                   /\ text' = t
                   /\ line_offsets' = recompute_line_offsets(t)
                   /\ verb_order' = ord
                   /\ diag_to_replacements' = register(diag_to_replacements, found)
                   /\ last' = call(DidOpen, "done", None,
                                   <<publishDiagnostics(textDocument["uri"], diagnostics)>>)
                   /\ ref' = t
                   /\ refValid' = TRUE
                   /\ opened' = opened \cup {textDocument["uri"]}
    /\ inbox' = Tail(inbox)
    /\ UNCHANGED <<shutdown, handshake, poolVars, pending, failed, calls>>

m_text_document__did_change ==
    /\ handling(DidChange)
    /\ LET textDocument == Head(inbox).params["textDocument"]
           contentChanges == Head(inbox).params["contentChanges"]
           start == [raised |-> NoException, text |-> text, line_offsets |-> line_offsets]
           done == apply_changes(start, contentChanges)
           refDone == IF refValid THEN ref_apply(ref, contentChanges) ELSE None
       IN  /\ text' = done.text
           /\ line_offsets' = done.line_offsets
           /\ IF done.raised = NoException
              THEN \E ord \in orders_after(verb_order, done.text) :
                       LET found == found_diagnostics(done.text, ord)
                           diagnostics == get_diagnostics(found)
                       IN  /\ verb_order' = ord
                           /\ diag_to_replacements' =
                                 register(diag_to_replacements, found)
                           /\ last' = call(DidChange, "done", None,
                                           <<publishDiagnostics(textDocument["uri"],
                                                                diagnostics)>>)
              ELSE /\ last' = call(DidChange, done.raised, None, <<>>)
                   /\ UNCHANGED <<verb_order, diag_to_replacements>>
           /\ refValid' = (refDone # None)
           /\ ref' = IF refDone # None THEN refDone[1] ELSE <<>>
    /\ inbox' = Tail(inbox)
    /\ UNCHANGED <<uri, shutdown, handshake, poolVars, sessionVars>>

m_text_document__hover ==
    /\ handling(Hover)
    /\ LET position == Position_from_dict(Head(inbox).params["position"])
       IN  last' = IF get_line_raises(line_offsets, position.line)
                   THEN call(Hover, "IndexError", None, <<>>)
                   ELSE call(Hover, "result",
                             Some(hover(text, line_offsets, position)), <<>>)
    /\ inbox' = Tail(inbox)
    /\ UNCHANGED <<text, line_offsets, uri, diag_to_replacements, verb_order,
                   shutdown, handshake, ref, refValid, poolVars, sessionVars>>

Next ==
    \/ receive
    \/ m_initialize
    \/ m_shutdown
    \/ m_text_document__did_open
    \/ m_text_document__did_change
    \/ m_text_document__hover

Spec == Init /\ [][Next]_vars

-----------------------------------------------------------------------------
(* The handlers run by the threads of the endpoint's pool.  A step is one       *)
(* statement of a handler; the handlers take no lock, so the statements of two  *)
(* threads interleave freely.                                                   *)

PoolTexts == {<<"a">>, <<"a", NL, "a">>}

PoolBatches ==
    {<<[range |-> Range_to_dict(Range(Position(0, 0), Position(0, 0))), text |-> <<NL>>]>>,
     <<[range |-> Range_to_dict(Range(Position(1, 0), Position(1, 0))), text |-> <<"a">>]>>,
     <<[range |-> Range_to_dict(Range(Position(0, 0), Position(0, 1))), text |-> <<>>]>>,
     <<[range |-> Range_to_dict(Range(Position(0, 0), Position(0, 0))), text |-> <<"a">>],
       [range |-> Range_to_dict(Range(Position(0, 1), Position(0, 1))), text |-> <<NL>>]>>}

PoolPositions == {Position(0, 0), Position(1, 0)}

\* the reader hands each message to the endpoint as it arrives
pool_receive ==
    /\ Len(received) < MaxMessages
    /\ \E msg \in
            {message(DidOpen, [textDocument |-> [uri |-> u, text |-> t]]) :
                u \in URIs, t \in PoolTexts}
            \cup {message(DidChange, [textDocument |-> [uri |-> u],
                                      contentChanges |-> contentChanges]) :
                    u \in URIs, contentChanges \in PoolBatches}
            \cup {message(Hover, [textDocument |-> [uri |-> u],
                                  position |-> Position_to_dict(position)]) :
                    u \in URIs, position \in PoolPositions} :
          /\ inbox' = Append(inbox, msg)
          /\ received' = Append(received, msg)
    /\ UNCHANGED <<text, line_offsets, uri, diag_to_replacements, verb_order, shutdown,
                   handshake, last, ref, refValid, workers, committed,
                       sessionVars>>

\* the endpoint gives the oldest message to a free thread, which calls its handler
pool_dispatch ==
    /\ inbox # <<>>
    /\ \E w \in Workers :
          /\ workers[w].pc = "idle"
          /\ \A v \in Workers : workers[v].pc = "idle" => w <= v
          /\ LET msg == Head(inbox)
             IN  workers' = [workers EXCEPT ![w] =
                    CASE msg.method = DidOpen ->
                            [pc |-> "initialize_document:uri",
                             textDocument |-> msg.params["textDocument"]]
                      [] msg.method = DidChange ->
                            [pc |-> "did_change:for",
                             textDocument |-> msg.params["textDocument"],
                             contentChanges |-> msg.params["contentChanges"]]
                      [] msg.method = Hover ->
                            [pc |-> "get_line:sentinel",
                             position |-> Position_from_dict(msg.params["position"])]]
    /\ inbox' = Tail(inbox)
    /\ UNCHANGED <<text, line_offsets, uri, diag_to_replacements, verb_order, shutdown,
                   handshake, last, ref, refValid, committed, received,
                       sessionVars>>

\* the document as it is when a handler has finished its changes, or has been
\* left by an exception
commit(t, offs) == committed \cup {[text |-> t, line_offsets |-> offs]}

\* initialize_document: self._uri = uri
pool_initialize_document_uri ==
    \E w \in Workers :
        /\ workers[w].pc = "initialize_document:uri"
        /\ uri' = Some(workers[w].textDocument["uri"])
        /\ workers' = [workers EXCEPT ![w].pc = "initialize_document:text"]
        /\ UNCHANGED <<text, line_offsets, diag_to_replacements, verb_order, shutdown,
                       inbox, handshake, last, ref, refValid, committed, received,
                       sessionVars>>

\* initialize_document: self._text = text
pool_initialize_document_text ==
    \E w \in Workers :
        /\ workers[w].pc = "initialize_document:text"
        /\ text' = workers[w].textDocument["text"]
        /\ workers' = [workers EXCEPT ![w].pc = "initialize_document:recompute"]
        /\ UNCHANGED <<line_offsets, uri, diag_to_replacements, verb_order, shutdown,
                       inbox, handshake, last, ref, refValid, committed, received,
                       sessionVars>>

\* initialize_document: self._recompute_line_offsets()
pool_initialize_document_recompute ==
    \E w \in Workers :
        /\ workers[w].pc = "initialize_document:recompute"
        /\ line_offsets' = recompute_line_offsets(text)
        /\ committed' = commit(text, line_offsets')
        /\ workers' = [workers EXCEPT ![w].pc = "get_diagnostics"]
        /\ UNCHANGED <<text, uri, diag_to_replacements, verb_order, shutdown,
                       inbox, handshake, last, ref, refValid, received,
                       sessionVars>>

\* m_text_document__did_change: the head of the for loop and Range.from_dict
pool_did_change_for ==
    \E w \in Workers :
        /\ workers[w].pc = "did_change:for"
        /\ LET change == Head(workers[w].contentChanges)
           IN  IF "range" \notin DOMAIN change \/ Range_from_dict_raises(change["range"])
               THEN /\ workers' = [workers EXCEPT ![w] = idle]
                    /\ committed' = commit(text, line_offsets)
               ELSE /\ workers' = [workers EXCEPT ![w] =
                            [pc |-> "update_document:start_offset",
                             textDocument |-> workers[w].textDocument,
                             contentChanges |-> Tail(workers[w].contentChanges),
                             range |-> Range_from_dict(change["range"]),
                             text |-> change["text"]]]
                    /\ UNCHANGED committed
        /\ UNCHANGED <<text, line_offsets, uri, diag_to_replacements, verb_order,
                       shutdown, inbox, handshake, last, ref, refValid, received,
                       sessionVars>>

\* update_document: start_offset = self._position_to_offset(range.start)
pool_update_document_start_offset ==
    \E w \in Workers :
        /\ workers[w].pc = "update_document:start_offset"
        /\ IF position_raises(line_offsets, workers[w].range.start)
           THEN /\ workers' = [workers EXCEPT ![w] = idle]
                /\ committed' = commit(text, line_offsets)
           ELSE /\ workers' = [workers EXCEPT ![w] =
                        [pc |-> "update_document:end_offset",
                         start_offset |->
                            position_to_offset(line_offsets, workers[w].range.start)]
                        @@ workers[w]]
                /\ UNCHANGED committed
        /\ UNCHANGED <<text, line_offsets, uri, diag_to_replacements, verb_order,
                       shutdown, inbox, handshake, last, ref, refValid, received,
                       sessionVars>>

\* update_document: end_offset = self._position_to_offset(range.end)
pool_update_document_end_offset ==
    \E w \in Workers :
        /\ workers[w].pc = "update_document:end_offset"
        /\ IF position_raises(line_offsets, workers[w].range.end)
           THEN /\ workers' = [workers EXCEPT ![w] = idle]
                /\ committed' = commit(text, line_offsets)
           ELSE /\ workers' = [workers EXCEPT ![w] =
                        [pc |-> "update_document:text",
                         end_offset |->
                            position_to_offset(line_offsets, workers[w].range.end)]
                        @@ workers[w]]
                /\ UNCHANGED committed
        /\ UNCHANGED <<text, line_offsets, uri, diag_to_replacements, verb_order,
                       shutdown, inbox, handshake, last, ref, refValid, received,
                       sessionVars>>

\* update_document: self._text = self._text[:start_offset] + text + self._text[end_offset:]
pool_update_document_text ==
    \E w \in Workers :
        /\ workers[w].pc = "update_document:text"
        /\ text' = splice(text, workers[w].start_offset, workers[w].end_offset,
                          workers[w].text)
        /\ workers' = [workers EXCEPT ![w].pc = "update_document:recompute"]
        /\ UNCHANGED <<line_offsets, uri, diag_to_replacements, verb_order, shutdown,
                       inbox, handshake, last, ref, refValid, committed, received,
                       sessionVars>>

\* update_document: self._recompute_line_offsets(), then the next content change or,
\* after the last one, get_diagnostics
pool_update_document_recompute ==
    \E w \in Workers :
        /\ workers[w].pc = "update_document:recompute"
        /\ line_offsets' = recompute_line_offsets(text)
        /\ IF workers[w].contentChanges = <<>>
           THEN /\ workers' = [workers EXCEPT ![w] =
                        [pc |-> "get_diagnostics",
                         textDocument |-> workers[w].textDocument]]
                /\ committed' = commit(text, line_offsets')
           ELSE /\ workers' = [workers EXCEPT ![w] =
                        [pc |-> "did_change:for",
                         textDocument |-> workers[w].textDocument,
                         contentChanges |-> workers[w].contentChanges]]
                /\ UNCHANGED committed
        /\ UNCHANGED <<text, uri, diag_to_replacements, verb_order, shutdown,
                       inbox, handshake, last, ref, refValid, received,
                       sessionVars>>

\* get_diagnostics on the current text, then the publishDiagnostics notification
pool_get_diagnostics ==
    \E w \in Workers :
        /\ workers[w].pc = "get_diagnostics"
        /\ \E ord \in orders_after(verb_order, text) :
              /\ verb_order' = ord
              /\ diag_to_replacements' =
                    register(diag_to_replacements, found_diagnostics(text, ord))
        /\ workers' = [workers EXCEPT ![w] = idle]
        /\ UNCHANGED <<text, line_offsets, uri, shutdown, inbox, handshake, last, ref,
                       refValid, committed, received,
                       sessionVars>>

\* _get_line: line_offsets_with_sentinel = self._line_offsets + [len(self._text)]
pool_get_line_sentinel ==
    \E w \in Workers :
        /\ workers[w].pc = "get_line:sentinel"
        /\ workers' = [workers EXCEPT ![w] =
                [pc |-> "get_line:slice",
                 position |-> workers[w].position,
                 seen_offsets |-> line_offsets,
                 line_offsets_with_sentinel |-> line_offsets \o <<Len(text)>>]]
        /\ UNCHANGED <<text, line_offsets, uri, diag_to_replacements, verb_order,
                       shutdown, inbox, handshake, last, ref, refValid, committed,
                       received,
                       sessionVars>>

\* _get_line: return self._text[...[line]:...[line+1]]
pool_get_line_slice ==
    \E w \in Workers :
        /\ workers[w].pc = "get_line:slice"
        /\ LET sentinel == workers[w].line_offsets_with_sentinel
               line == workers[w].position.line
           IN  workers' = [workers EXCEPT ![w] =
                    IF line + 1 >= Len(sentinel) THEN idle
                    ELSE [pc |-> "hover:return",
                          seen_offsets |-> workers[w].seen_offsets,
                          seen_text |-> text,
                          line_text |-> Slice(text, sentinel[line + 1],
                                              sentinel[line + 2])]]
        /\ UNCHANGED <<text, line_offsets, uri, diag_to_replacements, verb_order,
                       shutdown, inbox, handshake, last, ref, refValid, committed,
                       received,
                       sessionVars>>

\* _get_word_at and hover on the line read, then the response
pool_hover_return ==
    \E w \in Workers :
        /\ workers[w].pc = "hover:return"
        /\ workers' = [workers EXCEPT ![w] = idle]
        /\ UNCHANGED <<text, line_offsets, uri, diag_to_replacements, verb_order,
                       shutdown, inbox, handshake, last, ref, refValid, committed,
                       received,
                       sessionVars>>

NextPool ==
    \/ pool_receive
    \/ pool_dispatch
    \/ pool_initialize_document_uri
    \/ pool_initialize_document_text
    \/ pool_initialize_document_recompute
    \/ pool_did_change_for
    \/ pool_update_document_start_offset
    \/ pool_update_document_end_offset
    \/ pool_update_document_text
    \/ pool_update_document_recompute
    \/ pool_get_diagnostics
    \/ pool_get_line_sentinel
    \/ pool_get_line_slice
    \/ pool_hover_return

SpecPool == Init /\ [][NextPool]_vars

-----------------------------------------------------------------------------
(* The session of a client that edits sentences and uses every capability of    *)
(* the sample handler, each handler run to its end before the next message.     *)

\* a variant of the handler that makes the document named in the request the
\* document of the handler
m_text_document__syntax_highlight_selecting_document ==
    /\ handling(SyntaxHighlight)
    /\ uri' = Some(Head(inbox).params["textDocument"]["uri"])
    /\ last' = call(SyntaxHighlight, "result", Some(highlight_syntax(text)), <<>>)
    /\ inbox' = Tail(inbox)
    /\ UNCHANGED <<text, line_offsets, diag_to_replacements, verb_order,
                   shutdown, handshake, ref, refValid, poolVars, sessionVars>>

m_text_document__syntax_highlight ==
    /\ handling(SyntaxHighlight)
    /\ last' = call(SyntaxHighlight, "result", Some(highlight_syntax(text)), <<>>)
    /\ inbox' = Tail(inbox)
    /\ UNCHANGED <<text, line_offsets, uri, diag_to_replacements, verb_order,
                   shutdown, handshake, ref, refValid, poolVars, sessionVars>>

m_text_document__completion ==
    /\ handling(Completion)
    /\ LET position == Position_from_dict(Head(inbox).params["position"])
       IN  last' = IF get_completion_list_raises(text, line_offsets, position)
                   THEN call(Completion, "IndexError", None, <<>>)
                   ELSE call(Completion, "result",
                             Some(get_completion_list(text, line_offsets, position)), <<>>)
    /\ inbox' = Tail(inbox)
    /\ UNCHANGED <<text, line_offsets, uri, diag_to_replacements, verb_order,
                   shutdown, handshake, ref, refValid, poolVars, sessionVars>>

m_workspace__search_example ==
    /\ handling(SearchExample)
    /\ last' = call(SearchExample, "result",
                    Some(search_example(Head(inbox).params["query"])), <<>>)
    /\ inbox' = Tail(inbox)
    /\ UNCHANGED <<text, line_offsets, uri, diag_to_replacements, verb_order,
                   shutdown, handshake, ref, refValid, poolVars, sessionVars>>

\* the context of a code-action request carries a non-empty diagnostics list
carries_diagnostics(params) ==
    /\ "context" \in DOMAIN params
    /\ "diagnostics" \in DOMAIN params["context"]
    /\ params["context"]["diagnostics"] # <<>>

m_text_document__code_action ==
    /\ handling(CodeActionRequest)
    /\ LET params == Head(inbox).params
           rng == Range_from_dict(params["range"])
           quick == carries_diagnostics(params)
           wire == IF quick THEN params["context"]["diagnostics"] ELSE <<>>
           diagnostics == [k \in 1..Len(wire) |-> Diagnostic_from_dict(wire[k])]
           actions == IF quick THEN run_quick_fix(diag_to_replacements, uri, diagnostics)
                      ELSE <<>>
           commands == run_code_action(text, line_offsets, uri, rng)
           called == IF quick THEN <<"run_quick_fix">> ELSE <<>>
       IN  IF \E k \in 1..Len(wire) : Diagnostic_from_dict_raises(wire[k])
           THEN /\ last' = call(CodeActionRequest, "KeyError", None, <<>>)
                /\ calls' = <<>>
           ELSE IF run_quick_fix_raises(diag_to_replacements, diagnostics)
           THEN /\ last' = call(CodeActionRequest, "KeyError", None, <<>>)
                /\ calls' = called
           ELSE IF position_raises(line_offsets, rng.start)
                    \/ position_raises(line_offsets, rng.end)
           THEN /\ last' = call(CodeActionRequest, "IndexError", None, <<>>)
                /\ calls' = called \o <<"run_code_action">>
           ELSE /\ last' = call(CodeActionRequest, "result",
                                Some([k \in 1..Len(actions) |-> CodeAction_to_dict(actions[k])]
                                     \o [k \in 1..Len(commands) |->
                                            Command_to_dict(commands[k])]),
                                <<>>)
                /\ calls' = called \o <<"run_code_action">>
    /\ inbox' = Tail(inbox)
    /\ UNCHANGED <<text, line_offsets, uri, diag_to_replacements, verb_order,
                   shutdown, handshake, ref, refValid, poolVars, pending, failed, opened>>

\* a variant of the handler that forwards the first argument of every command
m_workspace__execute_command_any_name ==
    /\ handling(ExecuteCommand)
    /\ LET arguments == Head(inbox).params["arguments"]
       IN  IF arguments = <<>>
           THEN /\ last' = call(ExecuteCommand, "IndexError", None, <<>>)
                /\ UNCHANGED pending
           ELSE LET request == message(ApplyEdit, [edit |-> arguments[1]])
                IN  /\ last' = call(ExecuteCommand, "result", Some(None), <<request>>)
                    /\ pending' = Append(pending, request)
    /\ inbox' = Tail(inbox)
    /\ UNCHANGED <<text, line_offsets, uri, diag_to_replacements, verb_order,
                   shutdown, handshake, ref, refValid, poolVars, failed, opened, calls>>

\* a variant of the handler that waits for the client's response to the request
\* it has sent before it returns
m_workspace__execute_command_awaiting_response ==
    /\ handling(ExecuteCommand)
    /\ LET command == Head(inbox).params["command"]
           arguments == Head(inbox).params["arguments"]
       IN  IF command # "refactor.rewrite"
           THEN /\ last' = call(ExecuteCommand, "result", Some(None), <<>>)
                /\ inbox' = Tail(inbox)
                /\ UNCHANGED pending
           ELSE IF arguments = <<>>
           THEN /\ last' = call(ExecuteCommand, "IndexError", None, <<>>)
                /\ inbox' = Tail(inbox)
                /\ UNCHANGED pending
           ELSE LET request == message(ApplyEdit, [edit |-> arguments[1]])
                IN  \/ /\ last.outcome # "waiting"
                       /\ last' = call(ExecuteCommand, "waiting", None, <<request>>)
                       /\ pending' = Append(pending, request)
                       /\ inbox' = inbox
                    \/ /\ last.outcome = "waiting"
                       /\ pending = <<>>
                       /\ last' = call(ExecuteCommand, "result", Some(None), <<request>>)
                       /\ inbox' = Tail(inbox)
                       /\ UNCHANGED pending
    /\ UNCHANGED <<text, line_offsets, uri, diag_to_replacements, verb_order,
                   shutdown, handshake, ref, refValid, poolVars, failed, opened, calls>>

\* self._endpoint.request returns a future that the handler does not wait for
m_workspace__execute_command ==
    /\ handling(ExecuteCommand)
    /\ LET command == Head(inbox).params["command"]
           arguments == Head(inbox).params["arguments"]
       IN  IF command # "refactor.rewrite"
           THEN /\ last' = call(ExecuteCommand, "result", Some(None), <<>>)
                /\ UNCHANGED pending
           ELSE IF arguments = <<>>
           THEN /\ last' = call(ExecuteCommand, "IndexError", None, <<>>)
                /\ UNCHANGED pending
           ELSE LET request == message(ApplyEdit, [edit |-> arguments[1]])
                IN  /\ last' = call(ExecuteCommand, "result", Some(None), <<request>>)
                    /\ pending' = Append(pending, request)
    /\ inbox' = Tail(inbox)
    /\ UNCHANGED <<text, line_offsets, uri, diag_to_replacements, verb_order,
                   shutdown, handshake, ref, refValid, poolVars, failed, opened, calls>>

m_text_document__definition ==
    /\ handling(Definition)
    /\ LET position == Position_from_dict(Head(inbox).params["position"])
           u == Head(inbox).params["textDocument"]["uri"]
       IN  last' = IF get_line_raises(line_offsets, position.line)
                   THEN call(Definition, "IndexError", None, <<>>)
                   ELSE IF get_word_at(text, line_offsets, position) = None
                   THEN call(Definition, "TypeError", None, <<>>)
                   ELSE call(Definition, "result",
                             Some(search_definition(text, line_offsets, position, u)),
                             <<>>)
    /\ inbox' = Tail(inbox)
    /\ UNCHANGED <<text, line_offsets, uri, diag_to_replacements, verb_order,
                   shutdown, handshake, ref, refValid, poolVars, sessionVars>>

\* the client answers one of the requests the server has sent to it
client_answers ==
    /\ \E k \in 1..Len(pending) :
          pending' = SubSeq(pending, 1, k - 1) \o SubSeq(pending, k + 1, Len(pending))
    /\ UNCHANGED <<text, line_offsets, uri, diag_to_replacements, verb_order, shutdown,
                   inbox, handshake, last, ref, refValid, poolVars, failed, opened, calls>>

\* the outcomes of a handler that ended with an exception
Exceptions == {"IndexError", "KeyError", "TypeError"}

SampleURIs == {"file:///a", "file:///b"}

\* "I is" has one agreement error, "I am" has none
SampleTexts == {<<"I", " ", "i", "s">>, <<"I", " ", "a", "m">>}

\* the verb of the sentence replaced, the same at a line that does not exist, and
\* a line break inserted behind the pronoun
SampleChanges ==
    {[range |-> Range_to_dict(Range(Position(0, 2), Position(0, 4))), text |-> <<"a", "m">>],
     [range |-> Range_to_dict(Range(Position(0, 2), Position(0, 4))), text |-> <<"i", "s">>],
     [range |-> Range_to_dict(Range(Position(1, 2), Position(1, 4))), text |-> <<"a", "m">>]}

SamplePositions == {Position(0, 1), Position(0, 2), Position(1, 0)}

\* the diagnostic that get_diagnostics reports for "I is", as the client received it
SampleDiagnostic ==
    Diagnostic_to_dict(
        get_diagnostics(found_diagnostics(<<"I", " ", "i", "s">>,
                                          [lit \in SetLiterals |-> None]))[1])

\* the params of the code-action requests: a range with and without a context,
\* whose diagnostics are none, the reported one, or one that the client has
\* edited; an empty range; a range at a line that does not exist
SampleCodeActions ==
    LET pronoun == Range_to_dict(Range(Position(0, 0), Position(0, 1)))
        empty == Range_to_dict(Range(Position(0, 2), Position(0, 2)))
        outside == Range_to_dict(Range(Position(1, 0), Position(1, 1)))
        document == [uri |-> "file:///a"]
    IN  {[textDocument |-> document, range |-> pronoun],
         [textDocument |-> document, range |-> empty],
         [textDocument |-> document, range |-> outside]}
        \cup {[textDocument |-> document, range |-> pronoun,
                context |-> [diagnostics |-> diagnostics]] :
                    diagnostics \in {<<>>, <<SampleDiagnostic>>,
                                     <<[SampleDiagnostic EXCEPT !.message = <<"edited">>]>>}}
        \cup {[textDocument |-> document, range |-> empty,
                context |-> [diagnostics |-> <<SampleDiagnostic>>]]}

\* the edit of a quick fix for "I is"
SampleEdit ==
    WorkspaceEdit_to_dict(
        WorkspaceEdit(Some("file:///a"),
                      <<TextEdit(Range(Position(0, 0), Position(0, 4)),
                                 <<"I", " ", "a", "m">>)>>))

\* start: the reader hands the next message of the client to the endpoint
receive_sample ==
    /\ inbox = <<>>
    /\ failed' = (failed \/ last.outcome \in Exceptions)
    /\ calls' = <<>>
    /\ \/ \E u \in SampleURIs, t \in SampleTexts :
            inbox' = <<message(DidOpen, [textDocument |-> [uri |-> u, text |-> t]])>>
       \/ \E u \in SampleURIs, change \in SampleChanges :
            inbox' = <<message(DidChange, [textDocument |-> [uri |-> u],
                                          contentChanges |-> <<change>>])>>
       \/ \E position \in SamplePositions :
            LET params == [textDocument |-> [uri |-> "file:///a"],
                           position |-> Position_to_dict(position)]
            IN  \/ inbox' = <<message(Hover, params)>>
                \/ inbox' = <<message(Completion, params)>>
                \/ inbox' = <<message(Definition, params)>>
       \/ inbox' = <<message(SyntaxHighlight, [textDocument |-> [uri |-> "file:///a"]])>>
       \/ inbox' = <<message(SearchExample, [query |-> "tea"])>>
       \/ \E params \in SampleCodeActions :
            inbox' = <<message(CodeActionRequest, params)>>
       \/ /\ Len(pending) < MaxPending
          /\ \E arguments \in {<<>>, <<SampleEdit>>} :
                inbox' = <<message(ExecuteCommand, [command |-> "refactor.rewrite",
                                                   arguments |-> arguments])>>
       \/ \E arguments \in {<<>>, <<SampleEdit>>} :
            inbox' = <<message(ExecuteCommand, [command |-> "editor.action.format",
                                               arguments |-> arguments])>>
    /\ UNCHANGED <<text, line_offsets, uri, diag_to_replacements, verb_order, shutdown,
                   handshake, last, ref, refValid, poolVars, pending, opened>>

\* a handler runs on the message read
handle ==
    \/ m_text_document__did_open
    \/ m_text_document__did_change
    \/ m_text_document__syntax_highlight
    \/ m_text_document__completion
    \/ m_workspace__search_example
    \/ m_text_document__code_action
    \/ m_workspace__execute_command
    \/ m_text_document__definition
    \/ m_text_document__hover

NextSample ==
    \/ receive_sample
    \/ m_text_document__did_open
    \/ m_text_document__did_change
    \/ m_text_document__syntax_highlight
    \/ m_text_document__completion
    \/ m_workspace__search_example
    \/ m_text_document__code_action
    \/ m_workspace__execute_command
    \/ m_text_document__definition
    \/ m_text_document__hover
    \/ client_answers

SpecSample == Init /\ [][NextSample]_vars

-----------------------------------------------------------------------------
(* Properties *)

\* the valid positions of text t: a line of t and a character up to its length
valid_positions(t) ==
    {p \in [line : 0..count_newlines(t), character : 0..Len(t)] : valid_position(t, p)}

\* C1: in every document reached by opens and changes, converting a valid
\* position to an offset and back gives the position again.
C1_PositionRoundTrip ==
    \A p \in valid_positions(text) :
        offset_to_position(line_offsets, position_to_offset(line_offsets, p)) = p

\* C2: in every document reached by opens and changes, converting an offset of
\* 0..len(text) to a position and back gives the offset again.
C2_OffsetRoundTrip ==
    \A o \in 0..Len(text) :
        position_to_offset(line_offsets, offset_to_position(line_offsets, o)) = o

\* C3: as long as every edit since the open was a valid edit, the text equals
\* the reference string that received the same splices; and replacing
\* (0,0)-(0,1) of "abc" by "X" gives "Xbc" with line offsets [0].
C3_EditsMatchReference ==
    /\ refValid => text = ref
    /\ update_document(<<"a", "b", "c">>, <<0>>,
                       Range(Position(0, 0), Position(0, 1)), <<"X">>)
          = [raised |-> NoException, text |-> <<"X", "b", "c">>, line_offsets |-> <<0>>]

\* C3 witness: after an open, a change notification of valid edits has been
\* applied and has left a text of several lines
C3_Witness ==
    /\ refValid
    /\ uri # None
    /\ last.method = DidChange /\ last.outcome = "done"
    /\ Len(line_offsets) > 1
    /\ Len(text) > 2

\* C4: the line index always matches the text: it starts with 0, has one entry
\* more than the text has line breaks, is strictly ascending, and each later
\* entry is the offset just after a line break.
C4_LineIndexMatchesText ==
    /\ line_offsets[1] = 0
    /\ Len(line_offsets) = count_newlines(text) + 1
    /\ \A i \in 1..(Len(line_offsets) - 1) : line_offsets[i] < line_offsets[i + 1]
    /\ \A i \in 2..Len(line_offsets) :
          line_offsets[i] \in 1..Len(text) /\ text[line_offsets[i]] = NL

\* C4 witness: a change has left a text of three lines
C4_Witness ==
    /\ last.method = DidChange /\ last.outcome = "done"
    /\ Len(line_offsets) = 3

\* this step is the handler of a change notification of one content change
HandledOneChange ==
    /\ handling(DidChange) /\ inbox' = Tail(inbox)
    /\ Len(Head(inbox).params["contentChanges"]) = 1

\* a position of the range of a change lies outside text t
positions_outside(t, change) ==
    /\ "range" \in DOMAIN change
    /\ \/ ~valid_position(t, change["range"]["start"])
       \/ ~valid_position(t, change["range"]["end"])

\* C5: a change whose range has a position outside the document fails with an
\* error and leaves text and line offsets unchanged.
C5_OutsideRangeRejected ==
    [][(HandledOneChange
            /\ positions_outside(text, Head(inbox).params["contentChanges"][1]))
        => /\ last'.outcome \in {"IndexError", "OutOfBounds", "InvalidLine"}
           /\ text' = text
           /\ line_offsets' = line_offsets]_vars

\* C6: a change notification that fails at one of its content changes leaves
\* text, line offsets and uri as they were before the notification.
C6_FailedNotificationLeavesState ==
    [][(handling(DidChange) /\ inbox' = Tail(inbox) /\ last'.outcome # "done")
        => /\ text' = text
           /\ line_offsets' = line_offsets
           /\ uri' = uri]_vars

\* this step is a handler called with the message at the head of the inbox
Handled == inbox # <<>> /\ inbox' = Tail(inbox)

\* C9: while no initialize request has been handled, every other call is
\* rejected with NotInitialized, changes nothing of the document and sends no
\* notification.
C9_UninitializedRejected ==
    [][(Handled /\ ~handshake.initialized /\ Head(inbox).method # Initialize)
        => /\ last'.outcome = "NotInitialized"
           /\ UNCHANGED <<text, line_offsets, uri>>
           /\ last'.notes = <<>>]_vars

\* C10: the shutdown request returns an empty success, and every call handled
\* after it is rejected with Shutdown, changes nothing of the document and
\* sends no notification.
C10_RejectedAfterShutdown ==
    [][Handled
        => /\ Head(inbox).method = Shutdown
                => last'.outcome = "result" /\ last'.result = Some(None)
           /\ handshake.shutdown
                => /\ last'.outcome = "Shutdown"
                   /\ UNCHANGED <<text, line_offsets, uri>>
                   /\ last'.notes = <<>>]_vars

RECURSIVE sequential_text(_, _)
sequential_text(doc, msgs) ==
    IF msgs = <<>> THEN doc.text
    ELSE LET msg == Head(msgs)
             next == CASE msg.method = DidOpen ->
                            [raised |-> NoException,
                             text |-> msg.params["textDocument"]["text"],
                             line_offsets |->
                                recompute_line_offsets(msg.params["textDocument"]["text"])]
                       [] msg.method = DidChange ->
                            apply_changes([doc EXCEPT !.raised = NoException],
                                          msg.params["contentChanges"])
                       [] OTHER -> doc
         IN  sequential_text(next, Tail(msgs))

C20_OffsetToPositionFindsLine ==
    \A o \in 0..Len(text) :
        LET line == Max({l \in 0..(Len(line_offsets) - 1) : line_offsets[l + 1] <= o})
        IN  offset_to_position(line_offsets, o) = Position(line, o - line_offsets[line + 1])

\* this step is the handler of an open or change notification that returned
HandledMutation ==
    /\ Handled
    /\ Head(inbox).method \in {DidOpen, DidChange}
    /\ last'.outcome = "done"

\* C11: every open and change notification that is handled successfully sends
\* exactly one publishDiagnostics notification, with the uri of the notification
\* and the diagnostics of the text that the notification has left, whether or
\* not an earlier request has failed.
C11_DiagnosticsPublished ==
    [][HandledMutation
        => /\ Len(last'.notes) = 1
           /\ last'.notes[1].method = "textDocument/publishDiagnostics"
           /\ last'.notes[1].params.uri = Head(inbox).params["textDocument"]["uri"]
           /\ \A diagnostics \in {get_diagnostics(found_diagnostics(text', verb_order'))} :
                last'.notes[1].params.diagnostics =
                    [k \in 1..Len(diagnostics) |-> Diagnostic_to_dict(diagnostics[k])]]_vars

\* C11 witness: after a request has failed, a change notification has been
\* handled and has published a diagnostic
C11_Witness ==
    /\ failed
    /\ last.method = DidChange /\ last.outcome = "done"
    /\ Len(last.notes) = 1
    /\ last.notes[1].params.diagnostics # <<>>

\* the agreement errors of text t, found on the text alone: the offsets a < b <=
\* c < d of two runs of word characters [a, b) and [c, d), maximal and separated
\* only by characters that are neither word characters nor line breaks, of which
\* the first is a pronoun and the second a form of be that does not agree
ref_agreement_errors(t) ==
    LET word(a, b) ==
            /\ a < b
            /\ \A i \in (a + 1)..b : t[i] \in WordChars
            /\ (a = 0 \/ t[a] \notin WordChars)
            /\ (b = Len(t) \/ t[b + 1] \notin WordChars)
    IN  {e \in [a : 0..Len(t), b : 0..Len(t), c : 0..Len(t), d : 0..Len(t)] :
            /\ word(e.a, e.b) /\ word(e.c, e.d) /\ e.b <= e.c
            /\ \A i \in (e.b + 1)..e.c : t[i] \notin WordChars /\ t[i] # NL
            /\ wrong_agreement(SubSeq(t, e.a + 1, e.b), SubSeq(t, e.c + 1, e.d))}

\* the position of offset o of text t, counted on the text alone
ref_position(t, o) ==
    LET line == count_newlines(SubSeq(t, 1, o))
    IN  Position(line, o - ref_line_start(t, line))

\* C12: the diagnostics published for the current text are exactly the
\* agreement errors of the current text, one diagnostic each: none of an
\* earlier pass persists.
C12_NoStaleDiagnostics ==
    (last.method \in {DidOpen, DidChange} /\ last.outcome = "done")
        => LET published == last.notes[1].params.diagnostics
               errors == ref_agreement_errors(text)
           IN  /\ Len(published) = Cardinality(errors)
               /\ {published[k].range : k \in 1..Len(published)}
                    = {Range_to_dict(Range(ref_position(text, e.a), ref_position(text, e.d))) :
                            e \in errors}

\* C12 witness: a change has removed the agreement error that an earlier pass
\* had reported, and the diagnostics published after it are empty
C12_Witness ==
    /\ diag_to_replacements # <<>>
    /\ last.method = DidChange /\ last.outcome = "done"
    /\ last.notes[1].params.diagnostics = <<>>

\* the quick fixes that a code-action request gets for diagnostic d of the
\* mapping, sent to the client and decoded again from the request's context
decoded_quick_fixes(mapping, u, d) ==
    run_quick_fix(mapping, u, <<Diagnostic_from_dict(Diagnostic_to_dict(d))>>)

\* the replacements that the valid verb forms of the pronoun of diagnostic d give
valid_replacements(d) ==
    LET words == Tail(d.message)
        w1 == SubSeq(words, 1, Min({i \in 1..Len(words) : words[i] = " "}) - 1)
        verbs == elements(VALID_COMBINATIONS(lower(w1)))
    IN  {w1 \o <<" ">> \o verbs[v] : v \in 1..Len(verbs)}

\* diagnostic d, decoded from the wire, is a key of the mapping
recognised(mapping, d) ==
    /\ ~Diagnostic_from_dict_raises(Diagnostic_to_dict(d))
    /\ ~run_quick_fix_raises(mapping, <<Diagnostic_from_dict(Diagnostic_to_dict(d))>>)

\* "I are happy" opened as file:///a, whatever the iteration order of the sets:
\* one diagnostic over characters 0-5, recognised when it comes back from the
\* wire, with the two quick fixes "I am" and "I was"
I_are_happy ==
    \A ord \in [SetLiterals -> {Some(o) : o \in IterationOrders}] :
        \A found \in {found_diagnostics(<<"I"," ","a","r","e"," ","h","a","p","p","y">>, ord)} :
            /\ Len(found) = 1
            /\ found[1].diagnostic.range = Range(Position(0, 0), Position(0, 5))
            /\ recognised(register(<<>>, found), found[1].diagnostic)
            /\ \A fixes \in {decoded_quick_fixes(register(<<>>, found), Some("file:///a"),
                                                 found[1].diagnostic)} :
                  /\ Len(fixes) = 2
                  /\ {fixes[k].command.arguments[1].changes[Some("file:///a")][1].newText :
                            k \in 1..Len(fixes)}
                        = {<<"I"," ","a","m">>, <<"I"," ","w","a","s">>}

\* C13: a diagnostic of the mapping that comes back decoded from the wire is a
\* key of the mapping, and run_quick_fix offers one fix per valid verb form for
\* it; "I are happy" has one diagnostic, over characters 0-5, whose fixes are
\* "I am" and "I was".
C13_QuickFixByValue ==
    /\ \A d \in DOMAIN diag_to_replacements :
          /\ recognised(diag_to_replacements, d)
          /\ \A fixes \in {decoded_quick_fixes(diag_to_replacements, uri, d)} :
                /\ Len(fixes) = Cardinality(valid_replacements(d))
                /\ {fixes[k].title : k \in 1..Len(fixes)}
                      = {<<"Quick fix: ">> \o r : r \in valid_replacements(d)}
                /\ \A k \in 1..Len(fixes) :
                      /\ fixes[k].kind = "quickfix"
                      /\ fixes[k].command.arguments[1].changes[uri][1].range = d.range
    /\ I_are_happy

\* C13 witness: a code-action request whose context carries a reported
\* diagnostic has been answered with quick fixes
C13_Witness ==
    /\ last.method = CodeActionRequest /\ last.outcome = "result"
    /\ calls = <<"run_quick_fix", "run_code_action">>
    /\ \E k \in 1..Len(last.result[1]) :
          /\ "kind" \in DOMAIN last.result[1][k]
          /\ last.result[1][k].title = <<"Quick fix: ", "I", " ", "a", "m">>

\* C14: every code-action request calls run_code_action, calls run_quick_fix
\* before it exactly when its context carries a non-empty diagnostics list, and
\* returns the quick fixes followed by the commands.
C14_QuickFixesThenCommands ==
    [][(Handled /\ Head(inbox).method = CodeActionRequest)
        => /\ calls' = IF carries_diagnostics(Head(inbox).params)
                       THEN <<"run_quick_fix", "run_code_action">>
                       ELSE <<"run_code_action">>
           /\ last'.outcome = "result"
                => \E n \in 0..Len(last'.result[1]) :
                      /\ \A k \in 1..n : "kind" \in DOMAIN last'.result[1][k]
                      /\ \A k \in (n + 1)..Len(last'.result[1]) :
                            "kind" \notin DOMAIN last'.result[1][k]
                      /\ n > 0 <=> carries_diagnostics(Head(inbox).params)]_vars

-----------------------------------------------------------------------------
(* Requests behind an unanswered workspace/applyEdit *)

\* start: the reader hands the next message of the client to the endpoint; the
\* client sends rewrite commands whether or not it has answered the earlier
\* workspace/applyEdit requests
receive_backpressure ==
    /\ inbox = <<>>
    /\ failed' = (failed \/ last.outcome \in Exceptions)
    /\ calls' = <<>>
    /\ \/ inbox' = <<message(DidOpen, [textDocument |-> [uri |-> "file:///a",
                                                        text |-> <<"I", " ", "i", "s">>]])>>
       \/ \E change \in SampleChanges :
            inbox' = <<message(DidChange, [textDocument |-> [uri |-> "file:///a"],
                                          contentChanges |-> <<change>>])>>
       \/ LET params == [textDocument |-> [uri |-> "file:///a"],
                         position |-> Position_to_dict(Position(0, 2))]
          IN  inbox' = <<message(Hover, params)>>
       \/ inbox' = <<message(SearchExample, [query |-> "tea"])>>
       \/ inbox' = <<message(CodeActionRequest,
                             [textDocument |-> [uri |-> "file:///a"],
                              range |-> Range_to_dict(Range(Position(0, 0), Position(0, 1))),
                              context |-> [diagnostics |-> <<SampleDiagnostic>>]])>>
       \/ /\ Len(pending) <= MaxPending
          /\ inbox' = <<message(ExecuteCommand, [command |-> "refactor.rewrite",
                                                 arguments |-> <<SampleEdit>>])>>
    /\ UNCHANGED <<text, line_offsets, uri, diag_to_replacements, verb_order, shutdown,
                   handshake, last, ref, refValid, poolVars, pending, opened>>

\* the requests that read the document or none of the handler's state
IndependentRequests == {Hover, CodeActionRequest, SearchExample, ExecuteCommand}

handle_independent ==
    \/ m_text_document__hover
    \/ m_text_document__code_action
    \/ m_workspace__search_example
    \/ m_workspace__execute_command

NextBackpressure ==
    \/ receive_backpressure
    \/ m_text_document__did_open
    \/ m_text_document__did_change
    \/ handle_independent
    \/ client_answers

\* a worker of the pool runs the handler that the endpoint has submitted; nothing
\* makes the client answer
SpecBackpressure == Init /\ [][NextBackpressure]_vars /\ WF_vars(handle_independent)

\* C16: once a workspace/applyEdit request is with the client, every message
\* read is handled to completion, whether or not the client ever answers
C16_NotBlockedByClient ==
    (pending # <<>> /\ inbox # <<>> /\ Head(inbox).method \in IndependentRequests)
        ~> (inbox = <<>>)

\* a hover request has been answered while workspace/applyEdit requests, one of
\* them sent behind another that is unanswered, are still with the client
C16_Witness ==
    /\ Len(pending) > 1
    /\ last.method = Hover
    /\ last.outcome = "result"

\* position p of text t is on a space that separates two words of its line
on_separating_space(t, offs, p) ==
    /\ ~get_line_raises(offs, p.line)
    /\ LET line == get_line(t, offs, p.line)
           c == p.character
       IN  /\ c >= 1
           /\ c + 2 <= Len(line)
           /\ line[c + 1] = " "
           /\ line[c] \in WordChars
           /\ line[c + 2] \in WordChars

\* C17: at a position on a space that separates two words of the line,
\* _get_word_at returns no word and hover returns None
C17_NoWordOnSeparatingSpace ==
    \A p \in SamplePositions :
        on_separating_space(text, line_offsets, p)
            => /\ get_word_at(text, line_offsets, p) = None
               /\ hover(text, line_offsets, p) = None

\* C18: after two documents have been opened, a didChange notification that
\* names the one leaves the text and the line offsets of the other, which the
\* handler holds, unchanged
C18_ChangeAppliesToNamedDocument ==
    [][(/\ Handled
        /\ Head(inbox).method = DidChange
        /\ Head(inbox).params["textDocument"]["uri"] \in opened
        /\ uri # None
        /\ uri[1] \in opened
        /\ uri[1] # Head(inbox).params["textDocument"]["uri"])
            => /\ text' = text
               /\ line_offsets' = line_offsets]_vars

\* the requests for the capabilities of the handler
CapabilityRequests ==
    {SyntaxHighlight, Completion, SearchExample, CodeActionRequest, Definition, Hover}

\* C19: a request for a capability leaves text, line offsets and uri of the
\* handler unchanged, whether its handler returns or raises, and get_diagnostics
\* leaves the document as initialize_document has set it
C19_CapabilitiesReadOnly ==
    [][/\ (Handled /\ Head(inbox).method \in CapabilityRequests)
            => UNCHANGED <<text, line_offsets, uri>>
       /\ (Handled /\ Head(inbox).method = DidOpen)
            => LET textDocument == Head(inbox).params["textDocument"]
               IN  /\ text' = textDocument["text"]
                   /\ line_offsets' = recompute_line_offsets(textDocument["text"])
                   /\ uri' = Some(textDocument["uri"])]_vars

\* a syntax-highlight request has returned on an open document after an earlier
\* handler has raised an exception
C19_Witness ==
    /\ failed
    /\ text # <<>>
    /\ uri = Some("file:///b")
    /\ last.method = SyntaxHighlight
    /\ last.outcome = "result"

-----------------------------------------------------------------------------
(* Change notifications of two content changes on sentences *)

\* a line break inserted before the sentence, the first line break removed, and
\* the verb of the sentence on the first or on the second line replaced
BatchChanges ==
    {[range |-> Range_to_dict(Range(Position(0, 0), Position(0, 0))), text |-> <<NL>>],
     [range |-> Range_to_dict(Range(Position(0, 0), Position(1, 0))), text |-> <<>>]}
        \cup {[range |-> Range_to_dict(Range(Position(l, 2), Position(l, 4))), text |-> verb] :
                l \in 0..1, verb \in {<<"a", "m">>, <<"i", "s">>}}

SampleBatches == {<<first, second>> : first \in BatchChanges, second \in BatchChanges}

\* start: the reader hands the next message of the client to the endpoint
receive_batch ==
    /\ inbox = <<>>
    /\ failed' = (failed \/ last.outcome \in Exceptions)
    /\ \/ \E t \in SampleTexts :
            inbox' = <<message(DidOpen, [textDocument |-> [uri |-> "file:///a", text |-> t]])>>
       \/ \E contentChanges \in SampleBatches :
            /\ longest([raised |-> NoException, text |-> text,
                        line_offsets |-> line_offsets], contentChanges) <= MaxBatchLen
            /\ inbox' = <<message(DidChange, [textDocument |-> [uri |-> "file:///a"],
                                             contentChanges |-> contentChanges])>>
    /\ UNCHANGED <<text, line_offsets, uri, diag_to_replacements, verb_order, shutdown,
                   handshake, last, ref, refValid, poolVars, pending, opened, calls>>

NextBatch ==
    \/ receive_batch
    \/ m_text_document__did_open
    \/ m_text_document__did_change

SpecBatch == Init /\ [][NextBatch]_vars

\* this step is the handler of a change notification whose two changes are
\* valid edits, the second of the text that the first has left
HandledBatch ==
    /\ Handled
    /\ Head(inbox).method = DidChange
    /\ Len(Head(inbox).params["contentChanges"]) = 2
    /\ ref_apply(text, Head(inbox).params["contentChanges"]) # None

\* C21: the changes of a notification are applied in their order, each range
\* resolved in the text that the change before it has left, and diagnostics
\* are computed once, from the text after the last change
C21_ChangesAppliedInOrder ==
    [][HandledBatch
        => \A diagnostics \in {get_diagnostics(found_diagnostics(text', verb_order'))} :
            /\ text' = ref_apply(text, Head(inbox).params["contentChanges"])[1]
            /\ line_offsets' = recompute_line_offsets(text')
            /\ last'.outcome = "done"
            /\ Len(last'.notes) = 1
            /\ Len(last'.notes[1].params.diagnostics) = Cardinality(ref_agreement_errors(text'))
            /\ DOMAIN diag_to_replacements'
                 = DOMAIN diag_to_replacements
                     \cup {diagnostics[k] : k \in 1..Len(diagnostics)}]_vars

\* a notification has left a correct sentence on a second line, where a range
\* exists only after a line break has been inserted, and the mapping holds the
\* diagnostic of the open alone: nothing was registered between the two changes
C21_Witness ==
    /\ text = <<NL, "I", " ", "a", "m">>
    /\ last.method = DidChange
    /\ last.outcome = "done"
    /\ last.notes[1].params.diagnostics = <<>>
    /\ Cardinality(DOMAIN diag_to_replacements) = 1

\* the maximal runs of word characters of line l of text t, as spans [a, b) of
\* offsets in the line
ref_runs(t, l) ==
    LET from == ref_line_start(t, l)
        n == ref_line_length(t, l)
        char(i) == t[from + i]
    IN  {r \in [a : 0..n, b : 0..n] :
            /\ r.a < r.b
            /\ \A i \in (r.a + 1)..r.b : char(i) \in WordChars
            /\ (r.a = 0 \/ char(r.a) \notin WordChars)
            /\ (r.b = n \/ char(r.b + 1) \notin WordChars)}

\* C22: at every line of the text and every character, _get_word_at returns
\* the first maximal run of word characters of the line whose span contains
\* the character, both boundaries included, and None exactly when there is no
\* such run
C22_WordAtInclusive ==
    \A l \in 0..count_newlines(text), c \in 0..(Len(text) + 1) :
        LET hits == {r \in ref_runs(text, l) : r.a <= c /\ c <= r.b}
            from == ref_line_start(text, l)
            word == get_word_at(text, line_offsets, Position(l, c))
        IN  IF hits = {} THEN word = None
            ELSE \E r \in hits :
                    /\ \A other \in hits : r.a <= other.a
                    /\ word = Some(SubSeq(text, from + r.a + 1, from + r.b))

\* the document has a second line of two words, and the word at the offset
\* just behind the first of them is that word
C22_Witness ==
    /\ count_newlines(text) = 1
    /\ Cardinality(ref_runs(text, 1)) = 2
    /\ get_word_at(text, line_offsets, Position(1, 1)) = Some(<<"I">>)

\* C23: when a pass of get_diagnostics has ended, the mapping from diagnostics
\* to replacements holds entries for the diagnostics of that pass only
C23_MappingHoldsLatestPassOnly ==
    (last.method \in {DidOpen, DidChange} /\ last.outcome = "done")
        => LET published == last.notes[1].params.diagnostics
           IN  {Diagnostic_to_dict(d) : d \in DOMAIN diag_to_replacements}
                    = {published[k] : k \in 1..Len(published)}

\* the range of a change ends before it starts
reversed_range(change) ==
    /\ "range" \in DOMAIN change
    /\ ~Range_from_dict_raises(change["range"])
    /\ ~before_or_at(Range_from_dict(change["range"]).start,
                     Range_from_dict(change["range"]).end)

\* C24: a change whose range has its start behind its end is not spliced into
\* the text: the notification leaves text and line offsets as they were
C24_ReversedRangeNotSpliced ==
    [][(HandledOneChange /\ reversed_range(Head(inbox).params["contentChanges"][1]))
        => /\ text' = text
           /\ line_offsets' = line_offsets]_vars

\* the last whitespace-delimited token of context, empty when context has none
ref_last_token(context) ==
    LET ends == {i \in 1..Len(context) : context[i] \notin Whitespace}
    IN  IF ends = {} THEN <<>>
        ELSE LET e == Max(ends)
                 gaps == {i \in 1..e : context[i] \in Whitespace}
                 b == IF gaps = {} THEN 1 ELSE Max(gaps) + 1
             IN  SubSeq(context, b, e)

\* C25: at every valid position of an open document the completion request
\* returns a list with isIncomplete = true whose items are the vocabulary words
\* that start with the last token of the text before the position, also when
\* that text is empty or whitespace only
C25_CompletionAtEveryPosition ==
    uri # None
        => \A p \in valid_positions(text) :
              LET query == ref_last_token(SubSeq(text, 1, ref_offset(text, p)))
                  words == {COMPLETION_WORDS[k] : k \in 1..Len(COMPLETION_WORDS)}
              IN  /\ ~get_completion_list_raises(text, line_offsets, p)
                  /\ \A list \in {get_completion_list(text, line_offsets, p)} :
                        /\ list.isIncomplete = TRUE
                        /\ {list.items[k].label : k \in 1..Len(list.items)}
                              = {w \in words : startswith(w, query)}

\* C26: at every valid position of an open document search_definition returns
\* a list, empty when there is no word at the position, of one location per
\* occurrence of the word at the position, each with the uri of the request
\* and a range of the text that holds that word
C26_DefinitionLocatesWord ==
    uri # None
        => \A p \in valid_positions(text) :
              /\ ~search_definition_raises(text, line_offsets, p)
              /\ \A word \in {get_word_at(text, line_offsets, p)[1]},
                    locations \in {search_definition(text, line_offsets, p, uri[1])} :
                    /\ Len(locations)
                          = Cardinality({o \in 0..(Len(text) - Len(word)) :
                                            SubSeq(text, o + 1, o + Len(word)) = word})
                    /\ \A k \in 1..Len(locations) :
                          /\ locations[k].uri = uri[1]
                          /\ valid_range(text, locations[k].range)
                          /\ SubSeq(text, ref_offset(text, locations[k].range.start) + 1,
                                    ref_offset(text, locations[k].range.end)) = word

=============================================================================
